---- MODULE Spec2Model ----
(***************************************************************************)
(* gh-stale-repos: the scanner with ignore-list support                    *)
(* (src/gh-stale-repos.ts, lines 137-371).  One run of the script: token   *)
(* check, ignore-list read, the paginated fetch loop of fetchStaleRepos    *)
(* with its per-candidate filter, and the report.                          *)
(*                                                                         *)
(* Time is counted in ticks, TicksPerDay ticks to a day.  An ISO           *)
(* timestamp is a pair <<day, tick of the day>>; parseISO turns it into a  *)
(* tick count and format(_, "yyyy-MM-dd") into a day number.               *)
(*                                                                         *)
(* The remote source is the environment: the answer to a page request is   *)
(* chosen when it arrives (RespondOk / RespondError), and the content of   *)
(* repos.nodes[i] is chosen when the for loop reads it (ForNext); nothing  *)
(* in the program reads a node earlier.                                    *)
(***************************************************************************)
EXTENDS Integers, Sequences, FiniteSets, TLC

VARIABLES
    options,      \* the parsed command line (lines 158-190)
    pc,           \* position of the script
    ignoreList,   \* line 325; Null until the declaration is reached
    cursor,       \* line 243
    hasNextPage,  \* line 244
    staleRepos,   \* line 245
    repos,        \* line 271: [len, pageInfo] of the page being processed
    idx,          \* number of nodes of the page the for loop has taken
    repo,         \* line 273: the loop variable
    requests,     \* the page requests sent so far, in order
    responses,    \* history: the endCursor of each ok response received, in order
    remote,       \* remote side: the repositories of the organization, in the
                  \* order of the query, when the run is against a fixed list
    served,       \* remote side: nodes handed to the for loop so far
    sources,      \* history: the candidate each record of staleRepos was built from
    sawNotBefore, \* history: a non-ignored candidate with pushedAt >= cutoff was processed
    skippedFresh, \* history: an ignored candidate with pushedAt > cutoff was skipped
    stdout,       \* console.log / Table.render output, in order
    stderr,       \* console.error output, in order
    csvFile,      \* content written by Deno.writeTextFile (line 347)
    exitCode      \* Deno.exit code, or the normal end of the script

vars == <<options, pc, ignoreList, cursor, hasNextPage, staleRepos, repos, idx,
          repo, requests, responses, remote, served, sources, sawNotBefore,
          skippedFresh, stdout, stderr, csvFile, exitCode>>

\* An optional value (null or undefined in the script) is <<>>, a present one <<v>>.
Null == <<>>
Some(v) == <<v>>

\* ------------------------------------------------------------------ bounds

MaxPageLen == 2
MaxRequests == 2
MaxRepos == 2
MaxCursor == 2
TicksPerDay == 2
MaxRemote == 3

\* ------------------------------------------------------------- input sets

NameA == <<"a">>
NameB == <<"b">>
Names == {NameA, NameB}

\* ISO timestamps: <<day, tick of the day>>
PushTimes == {<<0, 1>>, <<1, 0>>, <<1, 1>>}
NowISO == <<2, 0>>

\* the most recent commit of a default branch (query lines 218-226)
LastCommit ==
    [committedDate |-> Some(<<0, 0>>),
     author |-> Some([name |-> Some("Octo Cat"), email |-> Some("octo@example.org"),
                      user |-> Some([login |-> "octocat"])])]

\* defaultBranchRef.target.history: absent, or totalCount with the first node
Histories ==
    {Null} \cup {Some([totalCount |-> n, nodes |-> <<LastCommit>>]) : n \in {1}}

Candidates ==
    [name : Names, pushedAt : PushTimes, diskUsage : {Some(7)}, history : Histories]

\* the shapes a most recent commit can have: each of committedDate, author,
\* author.name, author.email and author.user present or not
WideCommits ==
    [committedDate : {Null, Some(<<0, 0>>), Some(<<1, 1>>)},
     author : {Null} \cup
              {Some(a) : a \in [name : {Null, Some("Octo Cat")},
                                email : {Null, Some(""), Some("octo@example.org")},
                                user : {Null, Some([login |-> "octocat"])}]}]

\* the shapes a history can have: absent, or a count with or without a first node
WideHistories ==
    {Null} \cup
    {Some(h) : h \in [totalCount : {0, 1},
                      nodes : {<<>>} \cup {<<k>> : k \in WideCommits}]}

WideCandidates ==
    [name : Names, pushedAt : PushTimes, diskUsage : {Some(7)},
     history : WideHistories]

Cursors == {Some(c) : c \in 1..MaxCursor}

Tokens == {Null, Some(""), Some("ghp")}
Thresholds == {1, 2}
StaleDaysSet == {1}
IgnorePaths == {Null, Some("missing.txt"), Some("ignore.txt")}
CsvPaths == {Null, Some("out.csv")}

\* The text of ignore.txt, split at "\n": the lines "a", "" and " a ".
IgnoreText == << <<"a">>, <<>>, <<" ", "a", " ">> >>

OptionSets ==
    [token : Tokens, commitThreshold : Thresholds, staleDays : StaleDaysSet,
     ignore : IgnorePaths, json : BOOLEAN, csv : CsvPaths]

\* ---------------------------------------------------------------- helpers

\* JavaScript truthiness of an optional string
TruthyStr(o) == o # Null /\ o[1] # ""

parseISO(s) == s[1] * TicksPerDay + s[2]

format(t) == t \div TicksPerDay

subDays(t, d) == t - d * TicksPerDay

isAfter(a, b) == a > b

isBefore(a, b) == a < b

cutoffDate == subDays(parseISO(NowISO), options.staleDays)

RECURSIVE TrimStart(_)
TrimStart(s) ==
    IF s # <<>> /\ Head(s) = " " THEN TrimStart(Tail(s)) ELSE s

RECURSIVE TrimEnd(_)
TrimEnd(s) ==
    IF s # <<>> /\ s[Len(s)] = " " THEN TrimEnd(SubSeq(s, 1, Len(s) - 1)) ELSE s

trim(s) == TrimEnd(TrimStart(s))

\* lines 149-156; a file that cannot be read gives the empty set
readIgnoreList(filePath) ==
    IF filePath = "ignore.txt"
    THEN {trim(IgnoreText[i]) : i \in DOMAIN IgnoreText} \ {<<>>}
    ELSE {}

\* line 285: history?.nodes?.[0]
lastCommitInfo(r) ==
    IF r.history # Null /\ r.history[1].nodes # <<>>
    THEN Some(r.history[1].nodes[1])
    ELSE Null

\* lastCommitDate that never looks at the commit
lastCommitDateOfPush(r) == parseISO(r.pushedAt)

\* line 286: committedDate || pushedAt, then new Date(...) of line 304
lastCommitDate(r) ==
    IF lastCommitInfo(r) # Null /\ lastCommitInfo(r)[1].committedDate # Null
    THEN parseISO(lastCommitInfo(r)[1].committedDate[1])
    ELSE parseISO(r.pushedAt)

\* lines 288-290
author(r) ==
    LET a == IF lastCommitInfo(r) # Null THEN lastCommitInfo(r)[1].author ELSE Null
    IN  IF a # Null /\ a[1].user # Null /\ a[1].user[1].login # ""
        THEN a[1].user[1].login
        ELSE IF a # Null /\ TruthyStr(a[1].name) THEN a[1].name[1] ELSE "unknown"

\* lines 292-293
authorEmail(r) ==
    LET a == IF lastCommitInfo(r) # Null THEN lastCommitInfo(r)[1].author ELSE Null
    IN  IF a # Null /\ TruthyStr(a[1].email) THEN a[1].email[1] ELSE "unknown"

\* lines 295-296: totalCount || 0
totalCommits(r) ==
    IF r.history # Null /\ r.history[1].totalCount # 0
    THEN r.history[1].totalCount
    ELSE 0

\* line 283
isStale(r) == isBefore(parseISO(r.pushedAt), cutoffDate)

\* lines 298-309
MakeRecord(r) ==
    [name |-> r.name,
     pushedAt |-> format(parseISO(r.pushedAt)),
     commits |-> totalCommits(r),
     size |-> <<r.diskUsage, "kB">>,
     lastCommitDate |-> format(lastCommitDate(r)),
     lastCommitAuthor |-> author(r),
     lastCommitAuthorEmail |-> authorEmail(r)]

\* ------------------------------------------------------------------- Init

Init ==
    /\ options \in OptionSets
    /\ pc = "checkToken"
    /\ ignoreList = Null
    /\ cursor = Null
    /\ hasNextPage = TRUE
    /\ staleRepos = <<>>
    /\ repos = Null
    /\ idx = 0
    /\ repo = Null
    /\ requests = <<>>
    /\ responses = <<>>
    /\ remote = <<>>
    /\ served = 0
    /\ sources = <<>>
    /\ sawNotBefore = FALSE
    /\ skippedFresh = FALSE
    /\ stdout = <<>>
    /\ stderr = <<>>
    /\ csvFile = Null
    /\ exitCode = Null

\* line 208, orderBy PUSHED_AT ASC: the repositories of an organization in the
\* order of the query
SortedRemotes ==
    {s \in UNION {[1..n -> Candidates] : n \in 0..MaxRemote} :
        \A i \in 1..(Len(s) - 1) :
            parseISO(s[i].pushedAt) <= parseISO(s[i + 1].pushedAt)}

\* a run against a fixed organization
InitSorted ==
    /\ options \in OptionSets
    /\ pc = "checkToken"
    /\ ignoreList = Null
    /\ cursor = Null
    /\ hasNextPage = TRUE
    /\ staleRepos = <<>>
    /\ repos = Null
    /\ idx = 0
    /\ repo = Null
    /\ requests = <<>>
    /\ responses = <<>>
    /\ remote \in SortedRemotes
    /\ served = 0
    /\ sources = <<>>
    /\ sawNotBefore = FALSE
    /\ skippedFresh = FALSE
    /\ stdout = <<>>
    /\ stderr = <<>>
    /\ csvFile = Null
    /\ exitCode = Null

\* two tokens that a server accepts alike
ValidTokens == {Some("ghp"), Some("ghq")}

\* a run against a fixed organization with either of two valid tokens
InitTokens ==
    /\ options \in [token : ValidTokens, commitThreshold : Thresholds,
                    staleDays : StaleDaysSet, ignore : IgnorePaths,
                    json : BOOLEAN, csv : CsvPaths]
    /\ pc = "checkToken"
    /\ ignoreList = Null
    /\ cursor = Null
    /\ hasNextPage = TRUE
    /\ staleRepos = <<>>
    /\ repos = Null
    /\ idx = 0
    /\ repo = Null
    /\ requests = <<>>
    /\ responses = <<>>
    /\ remote \in SortedRemotes
    /\ served = 0
    /\ sources = <<>>
    /\ sawNotBefore = FALSE
    /\ skippedFresh = FALSE
    /\ stdout = <<>>
    /\ stderr = <<>>
    /\ csvFile = Null
    /\ exitCode = Null

\* The script inside the for loop of the first page, a page of one node of any
\* shape with nothing to follow: the state after CheckToken, StartScan, Fetch, an
\* ok response and ForNext.
InitShape ==
    /\ options \in {o \in OptionSets : TruthyStr(o.token)}
    /\ pc = "body"
    /\ ignoreList = Some(IF TruthyStr(options.ignore)
                         THEN readIgnoreList(options.ignore[1])
                         ELSE {})
    /\ cursor = Null
    /\ hasNextPage = TRUE
    /\ staleRepos = <<>>
    /\ repos = Some([len |-> 1,
                     pageInfo |-> [endCursor |-> Null, hasNextPage |-> FALSE]])
    /\ idx = 1
    /\ repo \in {Some(c) : c \in WideCandidates}
    /\ requests = << [authorization |-> <<"Bearer", options.token[1]>>,
                      cursor |-> Null] >>
    /\ responses = <<Null>>
    /\ remote = <<>>
    /\ served = 1
    /\ sources = <<>>
    /\ sawNotBefore = FALSE
    /\ skippedFresh = FALSE
    /\ stdout = << <<"Scanning">> >>
    /\ stderr = <<>>
    /\ csvFile = Null
    /\ exitCode = Null

\* ---------------------------------------------------------------- actions

\* what a run never changes: the command line and the remote repositories
fixed == <<options, remote>>

\* the history variables
hist == <<sources, sawNotBefore, skippedFresh>>

\* what the script has written
out == <<stdout, stderr, csvFile, exitCode>>

\* the local variables of fetchStaleRepos
loop == <<cursor, hasNextPage, staleRepos, repos, idx, repo>>

\* CheckToken testing only for an undefined token, not for an empty one
CheckTokenUndefinedOnly ==
    /\ pc = "checkToken"
    /\ IF options.token = Null
       THEN /\ stderr' = Append(stderr, <<"GitHub token is required">>)
            /\ exitCode' = Some(1)
            /\ pc' = "exit"
       ELSE /\ pc' = "scan"
            /\ UNCHANGED <<stderr, exitCode>>
    /\ UNCHANGED <<fixed, responses, ignoreList, loop, requests, served, hist, stdout, csvFile>>

\* lines 192-197
CheckToken ==
    /\ pc = "checkToken"
    /\ IF ~TruthyStr(options.token)
       THEN /\ stderr' = Append(stderr, <<"GitHub token is required">>)
            /\ exitCode' = Some(1)
            /\ pc' = "exit"
       ELSE /\ pc' = "scan"
            /\ UNCHANGED <<stderr, exitCode>>
    /\ UNCHANGED <<fixed, responses, ignoreList, loop, requests, served, hist, stdout, csvFile>>

\* StartScan with the console.log(token) of the first version of the script
StartScanLogsToken ==
    /\ pc = "scan"
    /\ stdout' = stdout \o << <<options.token[1]>>, <<"Scanning">> >>
    /\ ignoreList' = IF TruthyStr(options.ignore)
                     THEN Some(readIgnoreList(options.ignore[1]))
                     ELSE Some({})
    /\ cursor' = Null
    /\ hasNextPage' = TRUE
    /\ staleRepos' = <<>>
    /\ pc' = "while"
    /\ UNCHANGED <<fixed, responses, repos, idx, repo, requests, served, hist, stderr,
                   csvFile, exitCode>>

\* lines 322-326 and the entry of fetchStaleRepos, lines 243-255
StartScan ==
    /\ pc = "scan"
    /\ stdout' = Append(stdout, <<"Scanning">>)
    /\ ignoreList' = IF TruthyStr(options.ignore)
                     THEN Some(readIgnoreList(options.ignore[1]))
                     ELSE Some({})
    /\ cursor' = Null
    /\ hasNextPage' = TRUE
    /\ staleRepos' = <<>>
    /\ pc' = "while"
    /\ UNCHANGED <<fixed, responses, repos, idx, repo, requests, served, hist, stderr,
                   csvFile, exitCode>>

\* lines 200-203 and 262: what a page request carries
Request ==
    [authorization |-> <<"Bearer", options.token[1]>>, cursor |-> cursor]

\* Fetch without the await: the next request also goes out while the page of
\* the previous one is still being processed
FetchPrefetch ==
    /\ pc \in {"while", "for"}
    /\ hasNextPage
    /\ Len(requests) < MaxRequests
    /\ requests' = Append(requests, Request)
    /\ pc' = IF pc = "while" THEN "fetch" ELSE pc
    /\ UNCHANGED <<fixed, responses, ignoreList, loop, served, hist, out>>

\* lines 257-263: the loop test holds and the page request is sent
Fetch ==
    /\ pc = "while"
    /\ hasNextPage
    /\ Len(requests) < MaxRequests
    /\ requests' = Append(requests, Request)
    /\ pc' = "fetch"
    /\ UNCHANGED <<fixed, responses, ignoreList, loop, served, hist, out>>

\* lines 257 and 319: the loop test fails and fetchStaleRepos returns
Return ==
    /\ pc = "while"
    /\ ~hasNextPage
    /\ pc' = "main"
    /\ UNCHANGED <<fixed, responses, ignoreList, loop, requests, served, hist, out>>

\* RespondError without the Deno.exit(1): the error is logged and the loop is left
RespondErrorContinues ==
    /\ pc = "fetch"
    /\ stderr' = Append(stderr, <<"GitHub API error">>)
    /\ pc' = "main"
    /\ UNCHANGED <<fixed, responses, ignoreList, loop, requests, served, hist, stdout,
                   csvFile, exitCode>>

\* lines 265-268: a response that is not ok
RespondError ==
    /\ pc = "fetch"
    /\ stderr' = Append(stderr, <<"GitHub API error">>)
    /\ exitCode' = Some(1)
    /\ pc' = "exit"
    /\ UNCHANGED <<fixed, responses, ignoreList, loop, requests, served, hist, stdout,
                   csvFile>>

\* lines 270-271: an ok response with any page length and any pageInfo
RespondOk ==
    /\ pc = "fetch"
    /\ \E n \in 0..MaxPageLen, ec \in {Null} \cup Cursors, hn \in BOOLEAN :
          /\ served + n <= MaxRepos
          /\ repos' = Some([len |-> n,
                            pageInfo |-> [endCursor |-> ec, hasNextPage |-> hn]])
          /\ served' = served + n
          /\ responses' = Append(responses, ec)
    /\ idx' = 0
    /\ pc' = "for"
    /\ UNCHANGED <<fixed, ignoreList, cursor, hasNextPage, staleRepos, repo,
                   requests, hist, out>>

\* lines 270-271, for a remote source that holds at most MaxRepos repositories
\* and pages them by position: the cursor is the number of repositories before
\* the page, every page with more to come is non-empty, and the last one says
\* that nothing follows.
RespondPaged ==
    /\ pc = "fetch"
    /\ LET sent == requests[Len(requests)].cursor
           pos == IF sent = Null THEN 0 ELSE sent[1]
       IN  \E n \in 0..MaxPageLen, hn \in BOOLEAN :
              /\ pos + n <= MaxRepos
              /\ n = 0 => ~hn
              /\ pos + n = MaxRepos => ~hn
              /\ repos' = Some([len |-> n,
                                pageInfo |->
                                    [endCursor |-> IF n = 0 THEN Null
                                                   ELSE Some(pos + n),
                                     hasNextPage |-> hn]])
              /\ served' = served + n
              /\ responses' = Append(responses, IF n = 0 THEN Null
                                                  ELSE Some(pos + n))
    /\ idx' = 0
    /\ pc' = "for"
    /\ UNCHANGED <<fixed, ignoreList, cursor, hasNextPage, staleRepos, repo,
                   requests, hist, out>>

\* lines 208 and 270-271, for a fixed organization: the page after the cursor
\* sent holds the next MaxPageLen repositories, or those that are left
RespondSorted ==
    /\ pc = "fetch"
    /\ LET sent == requests[Len(requests)].cursor
           pos == IF sent = Null THEN 0 ELSE sent[1]
           left == Len(remote) - pos
           n == IF left < MaxPageLen THEN left ELSE MaxPageLen
           ec == IF n = 0 THEN Null ELSE Some(pos + n)
       IN  /\ repos' = Some([len |-> n,
                             pageInfo |-> [endCursor |-> ec,
                                           hasNextPage |-> pos + n < Len(remote)]])
           /\ served' = served + n
           /\ responses' = Append(responses, ec)
    /\ idx' = 0
    /\ pc' = "for"
    /\ UNCHANGED <<fixed, ignoreList, cursor, hasNextPage, staleRepos, repo,
                   requests, hist, out>>

\* line 273, for a fixed organization: the next node of the page is the
\* repository at that position
ForNextSorted ==
    /\ pc = "for"
    /\ idx < repos[1].len
    /\ LET sent == requests[Len(requests)].cursor
           pos == IF sent = Null THEN 0 ELSE sent[1]
       IN  repo' = Some(remote[pos + idx + 1])
    /\ idx' = idx + 1
    /\ pc' = "body"
    /\ UNCHANGED <<fixed, responses, ignoreList, cursor, hasNextPage, staleRepos,
                   repos, requests, served, hist, out>>

\* line 273: the for loop takes the next node of the page
ForNext ==
    /\ pc = "for"
    /\ idx < repos[1].len
    /\ \E c \in Candidates : repo' = Some(c)
    /\ idx' = idx + 1
    /\ pc' = "body"
    /\ UNCHANGED <<fixed, responses, ignoreList, cursor, hasNextPage, staleRepos, repos,
                   requests, served, hist, out>>

\* line 273: the page is exhausted
ForDone ==
    /\ pc = "for"
    /\ idx = repos[1].len
    /\ pc' = "endpage"
    /\ UNCHANGED <<fixed, responses, ignoreList, loop, requests, served, hist, out>>

\* StopTest against a cutoff one day too early
StopTestDayEarly(r) == isAfter(parseISO(r.pushedAt), subDays(cutoffDate, 1))

\* line 279: the early-termination test
StopTest(r) == isAfter(parseISO(r.pushedAt), cutoffDate)

\* Ignore with the staleness test made before the ignore-list test
IgnoreAfterStopTest ==
    /\ pc = "body"
    /\ repo[1].name \in ignoreList[1]
    /\ IF StopTest(repo[1])
       THEN /\ hasNextPage' = FALSE
            /\ pc' = "endpage"
            /\ UNCHANGED stdout
       ELSE /\ stdout' = Append(stdout, <<"Ignoring", repo[1].name>>)
            /\ pc' = "for"
            /\ UNCHANGED hasNextPage
    /\ skippedFresh' = (skippedFresh \/ parseISO(repo[1].pushedAt) > cutoffDate)
    /\ repo' = Null
    /\ UNCHANGED <<fixed, responses, ignoreList, cursor, staleRepos, repos, idx, requests,
                   served, sources, sawNotBefore, stderr, csvFile, exitCode>>

\* lines 274-277; the loop variable goes out of scope with the iteration
Ignore ==
    /\ pc = "body"
    /\ repo[1].name \in ignoreList[1]
    /\ stdout' = Append(stdout, <<"Ignoring", repo[1].name>>)
    /\ skippedFresh' = (skippedFresh \/ parseISO(repo[1].pushedAt) > cutoffDate)
    /\ repo' = Null
    /\ pc' = "for"
    /\ UNCHANGED <<fixed, responses, ignoreList, cursor, hasNextPage, staleRepos, repos, idx,
                   requests, served, sources, sawNotBefore, stderr, csvFile,
                   exitCode>>

\* lines 278-282
StopScan ==
    /\ pc = "body"
    /\ repo[1].name \notin ignoreList[1]
    /\ StopTest(repo[1])
    /\ hasNextPage' = FALSE
    /\ sawNotBefore' = TRUE
    /\ repo' = Null
    /\ pc' = "endpage"
    /\ UNCHANGED <<fixed, responses, ignoreList, cursor, staleRepos, repos, idx, requests,
                   served, sources, skippedFresh, out>>

\* Qualifies without the commit threshold
QualifiesStaleOnly(r) == isStale(r)

\* Qualifies with <= for <
QualifiesAtMost(r) == isStale(r) /\ totalCommits(r) <= options.commitThreshold

\* line 297
Qualifies(r) == isStale(r) /\ totalCommits(r) < options.commitThreshold

\* Consider with unshift for push: the new record goes to the front
ConsiderPrepend ==
    /\ pc = "body"
    /\ repo[1].name \notin ignoreList[1]
    /\ ~StopTest(repo[1])
    /\ IF Qualifies(repo[1])
       THEN /\ staleRepos' = <<MakeRecord(repo[1])>> \o staleRepos
            /\ sources' = <<repo[1]>> \o sources
       ELSE UNCHANGED <<staleRepos, sources>>
    /\ sawNotBefore' = (sawNotBefore \/ parseISO(repo[1].pushedAt) >= cutoffDate)
    /\ repo' = Null
    /\ pc' = "for"
    /\ UNCHANGED <<fixed, responses, ignoreList, cursor, hasNextPage, repos, idx,
                   requests, served, skippedFresh, out>>

\* lines 283-311
Consider ==
    /\ pc = "body"
    /\ repo[1].name \notin ignoreList[1]
    /\ ~StopTest(repo[1])
    /\ IF Qualifies(repo[1])
       THEN /\ staleRepos' = Append(staleRepos, MakeRecord(repo[1]))
            /\ sources' = Append(sources, repo[1])
       ELSE UNCHANGED <<staleRepos, sources>>
    /\ sawNotBefore' = (sawNotBefore \/ parseISO(repo[1].pushedAt) >= cutoffDate)
    /\ repo' = Null
    /\ pc' = "for"
    /\ UNCHANGED <<fixed, responses, ignoreList, cursor, hasNextPage, repos, idx, requests,
                   served, skippedFresh, out>>

\* EndPage that also ends the loop when the response carries no cursor
EndPageStopsOnNullCursor ==
    /\ pc = "endpage"
    /\ IF hasNextPage
       THEN /\ cursor' = repos[1].pageInfo.endCursor
            /\ hasNextPage' = (repos[1].pageInfo.hasNextPage
                               /\ repos[1].pageInfo.endCursor # Null)
       ELSE UNCHANGED <<cursor, hasNextPage>>
    /\ repos' = Null
    /\ idx' = 0
    /\ pc' = "while"
    /\ UNCHANGED <<fixed, responses, ignoreList, staleRepos, repo, requests, served, hist,
                   out>>

\* EndPage without line 314: the flag is updated, the cursor never advances
EndPageKeepsCursor ==
    /\ pc = "endpage"
    /\ IF hasNextPage
       THEN /\ hasNextPage' = repos[1].pageInfo.hasNextPage
            /\ UNCHANGED cursor
       ELSE UNCHANGED <<cursor, hasNextPage>>
    /\ repos' = Null
    /\ idx' = 0
    /\ pc' = "while"
    /\ UNCHANGED <<fixed, responses, ignoreList, staleRepos, repo, requests, served,
                   hist, out>>

\* EndPage without line 315: the cursor advances, the flag is never updated
EndPageKeepsFlag ==
    /\ pc = "endpage"
    /\ IF hasNextPage
       THEN /\ cursor' = repos[1].pageInfo.endCursor
            /\ UNCHANGED hasNextPage
       ELSE UNCHANGED <<cursor, hasNextPage>>
    /\ repos' = Null
    /\ idx' = 0
    /\ pc' = "while"
    /\ UNCHANGED <<fixed, responses, ignoreList, staleRepos, repo, requests, served, hist,
                   out>>

\* lines 313-317; repos goes out of scope with the iteration of the while loop
EndPage ==
    /\ pc = "endpage"
    /\ IF hasNextPage
       THEN /\ cursor' = repos[1].pageInfo.endCursor
            /\ hasNextPage' = repos[1].pageInfo.hasNextPage
       ELSE UNCHANGED <<cursor, hasNextPage>>
    /\ repos' = Null
    /\ idx' = 0
    /\ pc' = "while"
    /\ UNCHANGED <<fixed, responses, ignoreList, staleRepos, repo, requests, served, hist,
                   out>>

\* ReportNone without the Deno.exit(0): the message, then the report of no rows
ReportNoneFallsThrough ==
    /\ pc = "main"
    /\ Len(staleRepos) = 0
    /\ stdout' = stdout \o << <<"No stale, low-activity repos found!">>,
                              <<"Found", 0>>, <<"Table", staleRepos>> >>
    /\ exitCode' = Some(0)
    /\ pc' = "exit"
    /\ UNCHANGED <<fixed, responses, ignoreList, loop, requests, served, hist, stderr,
                   csvFile>>

\* lines 328-331
ReportNone ==
    /\ pc = "main"
    /\ Len(staleRepos) = 0
    /\ stdout' = Append(stdout, <<"No stale, low-activity repos found!">>)
    /\ exitCode' = Some(0)
    /\ pc' = "exit"
    /\ UNCHANGED <<fixed, responses, ignoreList, loop, requests, served, hist, stderr,
                   csvFile>>

\* lines 339-346
CsvLines(results) ==
    << <<"Repo", "Commits", "Size in kB", "Last Updated", "Last Commit", "Author",
         "Author Email">> >>
    \o [i \in 1..Len(results) |->
          <<results[i].name, results[i].commits, results[i].size,
            results[i].pushedAt, results[i].lastCommitDate,
            results[i].lastCommitAuthor, results[i].lastCommitAuthorEmail>>]

\* lines 333-371, then the normal end of the script
Report ==
    /\ pc = "main"
    /\ Len(staleRepos) # 0
    /\ IF options.json
       THEN /\ stdout' = stdout \o << <<"Found", Len(staleRepos)>>,
                                      <<"JSON", staleRepos>> >>
            /\ UNCHANGED csvFile
       ELSE IF TruthyStr(options.csv)
       THEN /\ csvFile' = Some(CsvLines(staleRepos))
            /\ stdout' = stdout \o << <<"Found", Len(staleRepos)>>,
                                      <<"CSV saved to", options.csv[1]>> >>
       ELSE /\ stdout' = stdout \o << <<"Found", Len(staleRepos)>>,
                                      <<"Table", staleRepos>> >>
            /\ UNCHANGED csvFile
    /\ exitCode' = Some(0)
    /\ pc' = "exit"
    /\ UNCHANGED <<fixed, responses, ignoreList, loop, requests, served, hist, stderr>>

\* the script outside the answers of the remote source
Script ==
    \/ CheckToken
    \/ StartScan
    \/ Fetch
    \/ Return
    \/ ForNext
    \/ ForDone
    \/ Ignore
    \/ StopScan
    \/ Consider
    \/ EndPage
    \/ ReportNone
    \/ Report

\* any remote source
Next == Script \/ RespondError \/ RespondOk

Spec == Init /\ [][Next]_vars

\* a remote source that pages a finite set of repositories by position
NextPaged == Script \/ RespondError \/ RespondPaged

\* The script is a single thread that runs to its end, and every request is
\* answered: a step that can be taken is eventually taken.
SpecPaged == Init /\ [][NextPaged]_vars /\ WF_vars(NextPaged)

\* a run against a fixed organization whose repositories come in the order of
\* the query
NextSorted ==
    \/ CheckToken
    \/ StartScan
    \/ Fetch
    \/ Return
    \/ RespondError
    \/ RespondSorted
    \/ ForNextSorted
    \/ ForDone
    \/ Ignore
    \/ StopScan
    \/ Consider
    \/ EndPage
    \/ ReportNone
    \/ Report

SpecSorted == InitSorted /\ [][NextSorted]_vars

\* the same run with either of two valid tokens
SpecTokens == InitTokens /\ [][NextSorted]_vars

\* the rest of a run from inside the for loop of a last page
NextShape ==
    \/ Ignore
    \/ StopScan
    \/ Consider
    \/ ForDone
    \/ EndPage
    \/ Return
    \/ ReportNone
    \/ Report

\* one candidate of any shape, processed and reported
SpecShape == InitShape /\ [][NextShape]_vars

\* ----------------------------------------------------------------- claims

\* the positions of stdout that hold a report body
ReportBodies ==
    {j \in 1..Len(stdout) : stdout[j][1] \in {"JSON", "Table", "CSV saved to"}}

\* the positions of stdout that hold the success message
NoneMessages ==
    {j \in 1..Len(stdout) : stdout[j][1] = "No stale, low-activity repos found!"}

\* the positions of stdout that hold an "Ignoring <name>" line
IgnoringMessages == {j \in 1..Len(stdout) : stdout[j][1] = "Ignoring"}

ApiErrorLogged == \E i \in 1..Len(stderr) : stderr[i] = <<"GitHub API error">>

\* C1: in every reachable state, every record of staleRepos was built from a
\* candidate whose last push is strictly before the cutoff, whose effective
\* commit count (0 without a history) is strictly below commitThreshold, and
\* whose name is not in the ignore set.
C1_RecordsStaleLowActivityNotIgnored ==
    /\ Len(sources) = Len(staleRepos)
    /\ \A i \in 1..Len(staleRepos) :
          LET c == sources[i]
              r == staleRepos[i]
              n == IF c.history = Null THEN 0 ELSE c.history[1].totalCount
          IN  /\ r.name = c.name
              /\ r.commits = n
              /\ c.pushedAt[1] * TicksPerDay + c.pushedAt[2]
                    < (NowISO[1] - options.staleDays) * TicksPerDay + NowISO[2]
              /\ n < options.commitThreshold
              /\ r.commits < options.commitThreshold
              /\ c.name \notin ignoreList[1]
              /\ r.name \notin ignoreList[1]

\* C1 witness: a finished run with a non-empty ignore set that skipped an ignored
\* candidate and collected a record.
C1_Witness ==
    /\ pc = "exit"
    /\ Len(staleRepos) = 1
    /\ ignoreList # Null
    /\ ignoreList[1] # {}
    /\ IgnoringMessages # {}

\* C2 (as claimed): processing a non-ignored candidate whose last push is not
\* before the cutoff (pushedAt >= cutoff, equality included) ends the scan at
\* once: the for loop is left, the flag is cleared, no record is added, and once
\* the flag is cleared no request is sent.
C2_NotBeforeStopsScan ==
    [][ /\ (pc = "body"
            /\ repo[1].name \notin ignoreList[1]
            /\ ~(parseISO(repo[1].pushedAt) < cutoffDate))
           => (pc' = "endpage" /\ ~hasNextPage' /\ staleRepos' = staleRepos)
        /\ ~hasNextPage => (~hasNextPage' /\ requests' = requests) ]_vars

\* C3 (as claimed): once a non-ignored candidate with pushedAt >= cutoff has been
\* processed, no later candidate yields a record.
C3_NoRecordAfterNotBefore ==
    [][sawNotBefore => staleRepos' = staleRepos]_vars

\* C4: processing a candidate whose name is in the ignore set, whatever its
\* last push, changes neither the flag, the cursor nor the results and returns
\* to the for loop, which takes the next node of the page; and while no
\* non-ignored candidate with pushedAt >= cutoff was met, the flag stays set
\* inside the loop, so the page's own has-more flag decides the next request.
C4_IgnoredNeverStopsScan ==
    /\ [][(pc = "body" /\ repo[1].name \in ignoreList[1])
            => /\ pc' = "for"
               /\ hasNextPage' = hasNextPage
               /\ cursor' = cursor
               /\ staleRepos' = staleRepos
               /\ repos' = repos
               /\ idx' = idx
               /\ exitCode' = exitCode]_vars
    /\ []((pc \in {"for", "body", "endpage"} /\ ~sawNotBefore) => hasNextPage)

\* C4 witness: an ignored candidate pushed after the cutoff was skipped on the
\* first page, and the second page request is out.
C4_Witness ==
    /\ skippedFresh
    /\ ~sawNotBefore
    /\ pc = "fetch"
    /\ Len(requests) = 2

\* C5 (as claimed): at the end of a page, a response with a false has-more flag
\* or without a cursor ends the loop.
C5_NoCursorOrNoMoreEndsLoop ==
    [][(pc = "endpage"
        /\ (~repos[1].pageInfo.hasNextPage \/ repos[1].pageInfo.endCursor = Null))
          => ~hasNextPage']_vars

\* C5 (amended): a response with a false has-more flag ends the loop, and once the
\* flag is cleared no request is sent; a response with a true has-more flag that
\* was processed to its end keeps the loop going with the cursor it carries, also
\* when that cursor is null.
C5_NoMoreEndsLoop ==
    [][ /\ (pc = "endpage" /\ ~repos[1].pageInfo.hasNextPage) => ~hasNextPage'
        /\ (pc = "endpage" /\ hasNextPage /\ repos[1].pageInfo.hasNextPage)
              => (hasNextPage' /\ cursor' = repos[1].pageInfo.endCursor
                  /\ pc' = "while")
        /\ ~hasNextPage => (~hasNextPage' /\ requests' = requests) ]_vars

\* C5 witness: the first response had has-more true and no cursor, so a second
\* request went out with a null cursor; its response had has-more false and the
\* loop ended without an early stop.
C5_Witness ==
    /\ pc = "main"
    /\ ~hasNextPage
    /\ ~sawNotBefore
    /\ Len(requests) = 2
    /\ requests[2].cursor = Null

\* C6: against a remote source that pages a finite set of repositories with a
\* strictly advancing cursor, every run ends (exit after the report, after the
\* early stop, or after a transport error); the request cap of the model is never
\* what stops it.
C6_ScanTerminates ==
    /\ <>(pc = "exit")
    /\ []((pc = "while" /\ hasNextPage) => Len(requests) < MaxRequests)

\* C6 witness: a run of two pages that ended by has-more becoming false.
C6_Witness ==
    /\ pc = "exit"
    /\ exitCode = Some(0)
    /\ Len(requests) = 2
    /\ ~sawNotBefore

\* C7: once a response that is not ok was received, the run is over with exit
\* code 1: nothing more can happen (no retry, no request), and neither a report
\* body nor the success message nor a CSV file was produced.
C7_TransportErrorAborts ==
    ApiErrorLogged
      => /\ pc = "exit"
         /\ exitCode = Some(1)
         /\ ~ENABLED Next
         /\ ReportBodies = {}
         /\ NoneMessages = {}
         /\ csvFile = Null

\* C7 witness: the second page request failed after a record was collected.
C7_Witness ==
    /\ ApiErrorLogged
    /\ Len(requests) = 2
    /\ Len(staleRepos) >= 1

\* C8: processing a candidate that is not ignored and whose last push is strictly
\* before the cutoff appends exactly one record, with its name and its effective
\* commit count (0 without a history), if that count is strictly below
\* commitThreshold, and leaves the results unchanged otherwise.
C8_StaleCandidateIncludedIffBelowThreshold ==
    [][(pc = "body"
        /\ repo[1].name \notin ignoreList[1]
        /\ repo[1].pushedAt[1] * TicksPerDay + repo[1].pushedAt[2]
              < (NowISO[1] - options.staleDays) * TicksPerDay + NowISO[2])
          => LET n == IF repo[1].history = Null THEN 0
                      ELSE repo[1].history[1].totalCount
             IN  IF n < options.commitThreshold
                 THEN /\ Len(staleRepos') = Len(staleRepos) + 1
                      /\ SubSeq(staleRepos', 1, Len(staleRepos)) = staleRepos
                      /\ staleRepos'[Len(staleRepos')].name = repo[1].name
                      /\ staleRepos'[Len(staleRepos')].commits = n
                 ELSE staleRepos' = staleRepos]_vars

\* C8 witness: with threshold 1, two candidates of the first page were processed,
\* neither ignored nor at or after the cutoff, and exactly one gave a record: the
\* other had a commit count of 1, equal to the threshold.
C8_Witness ==
    /\ pc = "for"
    /\ idx = 2
    /\ Len(requests) = 1
    /\ options.commitThreshold = 1
    /\ IgnoringMessages = {}
    /\ ~sawNotBefore
    /\ Len(staleRepos) = 1

\* C9: no request is ever sent with a missing or empty token; with such a token
\* the run never gets past the token check: no request, the ignore list never
\* read, and exit code 1.
C9_NoTokenNoRequest ==
    /\ \A i \in 1..Len(requests) : requests[i].authorization[2] # ""
    /\ (options.token = Null \/ options.token[1] = "")
          => /\ requests = <<>>
             /\ ignoreList = Null
             /\ pc \in {"checkToken", "exit"}
             /\ pc = "exit" => exitCode = Some(1)

\* C9 witness: a run with an empty token and an ignore file that has exited.
C9_Witness ==
    /\ pc = "exit"
    /\ options.token = Some("")
    /\ options.ignore = Some("ignore.txt")
    /\ exitCode = Some(1)
    /\ stderr = << <<"GitHub token is required">> >>

\* C10: a scan that completed with no record ends with exit code 0, the success
\* message printed exactly once, no report body and no CSV file; a report body
\* or a CSV file exists only when at least one record was collected.
C10_EmptyResultNoReport ==
    /\ (ReportBodies # {} \/ csvFile # Null) => Len(staleRepos) >= 1
    /\ Cardinality(NoneMessages) <= 1
    /\ (pc = "exit" /\ stderr = <<>> /\ Len(staleRepos) = 0)
          => /\ exitCode = Some(0)
             /\ Cardinality(NoneMessages) = 1
             /\ ReportBodies = {}
             /\ csvFile = Null

\* C10 witness: candidates were scanned, none qualified, --csv was given, and the
\* run has exited with code 0.
C10_Witness ==
    /\ pc = "exit"
    /\ exitCode = Some(0)
    /\ staleRepos = <<>>
    /\ served >= 1
    /\ options.csv # Null
    /\ ~options.json

\* C12: the first request carries a null cursor, every later request carries the
\* endCursor of the response just before it, and when the cursors the source
\* returned are present and pairwise distinct, no two requests carry the same
\* cursor.
C12_RequestsChainedByCursor ==
    /\ requests # <<>> => requests[1].cursor = Null
    /\ \A i \in 2..Len(requests) :
          /\ i - 1 <= Len(responses)
          /\ requests[i].cursor = responses[i - 1]
    /\ ((\A i \in 1..Len(responses) : responses[i] # Null)
        /\ (\A i, j \in 1..Len(responses) : i # j => responses[i] # responses[j]))
          => \A i, j \in 1..Len(requests) :
                i # j => requests[i].cursor # requests[j].cursor

\* C12 witness: the second request is out and carries cursor 2, the endCursor of
\* the first response.
C12_Witness ==
    /\ pc = "fetch"
    /\ Len(requests) = 2
    /\ responses = <<Some(2)>>
    /\ requests[2].cursor = Some(2)

\* C13: at most one request is unanswered, and none while a page is processed; a
\* request goes out only when every earlier one was answered and no page is in
\* work; the for loop is left either with every node of the page taken or by the
\* early stop, which clears the flag; the ignore set is the content of the ignore
\* file before the first request and never changes once set.
C13_OneRequestAtATime ==
    /\ [](/\ Len(requests) - Len(responses) \in {0, 1}
          /\ pc = "fetch" => Len(requests) = Len(responses) + 1
          /\ pc \in {"while", "for", "body", "endpage", "main"}
                => Len(requests) = Len(responses)
          /\ requests # <<>>
                => /\ ignoreList # Null
                   /\ ignoreList[1] = IF options.ignore = Some("ignore.txt")
                                      THEN {NameA}
                                      ELSE {})
    /\ [][/\ Len(requests') > Len(requests)
               => /\ Len(requests') = Len(requests) + 1
                  /\ Len(responses) = Len(requests)
                  /\ pc = "while"
                  /\ repos = Null
                  /\ repo = Null
          /\ (pc = "for" /\ pc' = "endpage") => idx = repos[1].len
          /\ (pc = "body" /\ pc' = "endpage") => ~hasNextPage'
          /\ ignoreList # Null => ignoreList' = ignoreList]_vars

\* C13 witness: with the ignore file read, the second request is out after a first
\* page of two candidates.
C13_Witness ==
    /\ pc = "fetch"
    /\ Len(requests) = 2
    /\ served = 2
    /\ ignoreList = Some({NameA})

\* C15: a step either leaves the result list as it is or, while processing one
\* candidate, appends one record of that candidate at the end: nothing is ever
\* removed, reordered or changed, and a candidate gives at most one record.
C15_ResultsAppendOnly ==
    [][\/ staleRepos' = staleRepos
       \/ /\ pc = "body"
          /\ pc' = "for"
          /\ Len(staleRepos') = Len(staleRepos) + 1
          /\ SubSeq(staleRepos', 1, Len(staleRepos)) = staleRepos
          /\ staleRepos'[Len(staleRepos')].name = repo[1].name
          /\ sources' = Append(sources, repo[1])]_vars

\* C15 witness: two different records, collected from two pages.
C15_Witness ==
    /\ Len(staleRepos) = 2
    /\ staleRepos[1] # staleRepos[2]
    /\ Len(requests) = 2
    /\ idx = 1

\* C11: a record built from a candidate without a default branch has commit
\* count 0; without a most recent commit its last-commit date is the day of the
\* last push and its author and email are "unknown"; with a most recent commit,
\* the date is the commit's day, the author the commit author's login or else
\* name, the email the commit author's email, and each of the three falls back
\* on its own (to the day of the last push, "unknown", "unknown") when it is the
\* one that is missing.
C11_RecordShape ==
    /\ Len(sources) = Len(staleRepos)
    /\ \A i \in 1..Len(staleRepos) :
          LET c == sources[i]
              r == staleRepos[i]
              noCommit == c.history = Null \/ c.history[1].nodes = <<>>
              k == c.history[1].nodes[1]
          IN  /\ r.pushedAt = c.pushedAt[1]
              /\ c.history = Null => r.commits = 0
              /\ (c.history # Null /\ c.history[1].totalCount = 0) => r.commits = 0
              /\ noCommit
                    => /\ r.lastCommitDate = c.pushedAt[1]
                       /\ r.lastCommitAuthor = "unknown"
                       /\ r.lastCommitAuthorEmail = "unknown"
              /\ ~noCommit
                    => /\ r.lastCommitDate =
                             IF k.committedDate # Null THEN k.committedDate[1][1]
                             ELSE c.pushedAt[1]
                       /\ r.lastCommitAuthor =
                             IF k.author # Null /\ k.author[1].user # Null
                             THEN k.author[1].user[1].login
                             ELSE IF k.author # Null /\ k.author[1].name # Null
                             THEN k.author[1].name[1]
                             ELSE "unknown"
                       /\ r.lastCommitAuthorEmail =
                             IF k.author # Null /\ k.author[1].email # Null
                                /\ k.author[1].email[1] # ""
                             THEN k.author[1].email[1]
                             ELSE "unknown"

\* C11 witness: a reported record whose commit has a date of another day than the
\* last push and an author with a name but neither login nor email.
C11_Witness ==
    /\ pc = "exit"
    /\ Len(staleRepos) = 1
    /\ sources[1].history # Null
    /\ sources[1].history[1].nodes # <<>>
    /\ sources[1].history[1].nodes[1].committedDate = Some(<<1, 1>>)
    /\ staleRepos[1].pushedAt = 0
    /\ staleRepos[1].lastCommitDate = 1
    /\ staleRepos[1].lastCommitAuthor = "Octo Cat"
    /\ staleRepos[1].lastCommitAuthorEmail = "unknown"

\* the full scan: every repository of the organization that is not ignored, was
\* pushed strictly before the cutoff and has fewer commits than the threshold,
\* in the order of the query
FullScan ==
    LET keep(c) == /\ c.name \notin ignoreList[1]
                   /\ c.pushedAt[1] * TicksPerDay + c.pushedAt[2] < cutoffDate
                   /\ (IF c.history = Null THEN 0 ELSE c.history[1].totalCount)
                         < options.commitThreshold
        kept == SelectSeq(remote, keep)
    IN  [i \in 1..Len(kept) |-> MakeRecord(kept[i])]

\* C14: against repositories sorted ascending by last push, whenever
\* fetchStaleRepos returns (no request failed) its result is the full scan's,
\* and the scan was never cut short by the bound on requests.
C14_EarlyStopEqualsFullScan ==
    /\ pc \in {"main", "exit"} /\ ignoreList # Null /\ stderr = <<>>
          => staleRepos = FullScan
    /\ (pc = "while" /\ hasNextPage) => Len(requests) < MaxRequests

\* C14 witness: the first repository qualifies, the second was pushed after the
\* cutoff and stops the scan, and the announced second page is never fetched.
C14_Witness ==
    /\ pc = "main"
    /\ Len(remote) = 3
    /\ staleRepos = <<MakeRecord(remote[1])>>
    /\ parseISO(remote[2].pushedAt) > cutoffDate
    /\ Len(requests) = 1
    /\ responses = <<Some(2)>>

\* a line of output made of a fixed text, a repository name, a count, records of
\* repositories or the path of the CSV file
TokenFree(m) ==
    \/ /\ Len(m) = 1
       /\ m[1] \in {"Scanning", "No stale, low-activity repos found!",
                    "GitHub API error", "GitHub token is required"}
    \/ /\ Len(m) = 2 /\ m[1] = "Ignoring"
       /\ m[2] \in Names
    \/ /\ Len(m) = 2 /\ m[1] = "Found"
       /\ m[2] \in Nat
    \/ /\ Len(m) = 2 /\ m[1] \in {"JSON", "Table"}
       /\ \A i \in 1..Len(m[2]) : m[2][i] \in {MakeRecord(c) : c \in Candidates}
    \/ /\ Len(m) = 2 /\ m[1] = "CSV saved to"
       /\ Some(m[2]) \in CsvPaths

\* what a complete run prints, from the options other than the token and the
\* repositories of the organization alone
ExpectedStdout ==
    LET ign == IF TruthyStr(options.ignore) THEN readIgnoreList(options.ignore[1])
               ELSE {}
        stops == {i \in 1..Len(remote) :
                     /\ remote[i].name \notin ign
                     /\ parseISO(remote[i].pushedAt) > cutoffDate}
        last == IF stops = {} THEN Len(remote)
                ELSE CHOOSE i \in stops : \A j \in stops : i <= j
        ignored(c) == c.name \in ign
        skipped == SelectSeq(SubSeq(remote, 1, last), ignored)
        body == IF options.json THEN <<"JSON", FullScan>>
                ELSE IF TruthyStr(options.csv)
                THEN <<"CSV saved to", options.csv[1]>>
                ELSE <<"Table", FullScan>>
    IN  << <<"Scanning">> >>
        \o [i \in 1..Len(skipped) |-> <<"Ignoring", skipped[i].name>>]
        \o (IF FullScan = <<>>
            THEN << <<"No stale, low-activity repos found!">> >>
            ELSE << <<"Found", Len(FullScan)>>, body >>)

\* what a complete run writes to the CSV file, likewise
ExpectedCsv ==
    IF FullScan # <<>> /\ ~options.json /\ TruthyStr(options.csv)
    THEN Some(CsvLines(FullScan))
    ELSE Null

\* C16: the token is in the Authorization header of every request; no line of
\* standard output or of the error output and no line of the CSV file holds it;
\* and what a run without a failed request has printed and written at its end
\* is determined by the other options and the repositories served, so it is the
\* same for either token.
C16_TokenOnlyInHeader ==
    /\ \A i \in 1..Len(requests) :
          requests[i].authorization = <<"Bearer", options.token[1]>>
    /\ \A i \in 1..Len(stdout) : TokenFree(stdout[i])
    /\ \A i \in 1..Len(stderr) : TokenFree(stderr[i])
    /\ csvFile # Null => csvFile = Some(CsvLines(staleRepos))
    /\ \A i \in 1..Len(staleRepos) :
          staleRepos[i] \in {MakeRecord(c) : c \in Candidates}
    /\ (pc = "exit" /\ stderr = <<>>)
          => /\ stdout = ExpectedStdout
             /\ csvFile = ExpectedCsv

\* C16 witness: a run with the second token that sent two requests, printed an
\* "Ignoring" line and ended with a CSV report.
C16_Witness ==
    /\ pc = "exit"
    /\ options.token = Some("ghq")
    /\ Len(requests) = 2
    /\ requests[2].authorization = <<"Bearer", "ghq">>
    /\ IgnoringMessages # {}
    /\ csvFile # Null
    /\ stderr = <<>>

====
